---- MODULE Spec2Model ----
(***************************************************************************)
(* The "top projects / top contributions" endpoint of api.utopian.io:      *)
(* the admission gate bypassRateLimit, the task runner top, the            *)
(* process-wide task cache and its eviction timers.                        *)
(*                                                                         *)
(* Times are in milliseconds, as in the source.  A JavaScript number that  *)
(* may be fractional (limit) is held as [nan, x2]: x2 is twice the value,  *)
(* so that 2.5 is x2 = 5.                                                  *)
(***************************************************************************)
EXTENDS Integers, Sequences, FiniteSets, TLC

VARIABLES
    cache,      \* the module-level cache: fingerprint -> Task object (index in tasks)
    tasks,      \* the Task objects allocated so far
    runners,    \* runners[t]: the invocation of top that created tasks[t]
    reqs,       \* the requests received so far, with what was written to each res
    timers,     \* pending setTimeout callbacks, in the order they were registered
    fired,      \* the setTimeout callbacks that have run
    db          \* the contribution store read by Post.aggregate

vars == <<cache, tasks, runners, reqs, timers, fired, db>>

----------------------------------------------------------------------------
(* Bounds of the model *)

MaxRequests == 3
MaxInFlight == 2

----------------------------------------------------------------------------
(* Program constants *)

ERROR == -1
SUCCESS == 0
IN_PROGRESS == 1

TaskStatusName(s) ==
    CASE s = ERROR -> "ERROR"
      [] s = SUCCESS -> "SUCCESS"
      [] s = IN_PROGRESS -> "IN_PROGRESS"

CONTRIBUTIONS == "contributions"
REWARDS == "rewards"
PROJECTS == "projects"

MaxLimit == 100
DayMs == 24 * 60 * 60 * 1000
MaxRangeMs == 8 * 24 * 60 * 60 * 1000
RewardsTtlMs == 1000 * 60 * 60 * 12
PlainTtlMs == 1000 * 60 * 5

LimitError == "limit is invalid or too high"
RangeError == "date range with rewards included must be less than 8 days apart"
InvalidArrayLength == "Invalid array length"
RewardsFailure == "updateRewards failed"
AggregateFailure == "aggregate failed"

----------------------------------------------------------------------------
(* Inputs *)

\* limit as it arrives in the query string (always given: the defaults of
\* lines 50-56 are not exercised)
LimitInputs == {"abc", "150", "-1", "0", "", "2", "2.5"}

\* Number(limit); the empty string converts to 0
NumberOf(s) ==
    CASE s = "150" -> [nan |-> FALSE, x2 |-> 300]
      [] s = "-1"  -> [nan |-> FALSE, x2 |-> -2]
      [] s = "0"   -> [nan |-> FALSE, x2 |-> 0]
      [] s = ""    -> [nan |-> FALSE, x2 |-> 0]
      [] s = "2"   -> [nan |-> FALSE, x2 |-> 4]
      [] s = "2.5" -> [nan |-> FALSE, x2 |-> 5]
      [] OTHER     -> [nan |-> TRUE, x2 |-> 0]

BoolInputs == {"true", "false"}

getBoolean(val) == val = "true"

StartDate == 10 * DayMs
\* a window of 4 days and one of 10 days
EndDates == {14 * DayMs, 20 * DayMs}

RawQueries ==
    [limit : LimitInputs,
     start_date : {StartDate},
     end_date : EndDates,
     sort_by : {CONTRIBUTIONS, REWARDS},
     retrieve_by : {PROJECTS, CONTRIBUTIONS},
     include_rewards : BoolInputs,
     only_new : BoolInputs]

\* The queries that are issued more than once in a run.  Every query of
\* RawQueries is run alone; the runs with several requests repeat one query,
\* with sort_by and only_new at their defaults, which only the ordering and the
\* filtering of the results read.
RepeatedQueries ==
    {raw \in RawQueries : raw.sort_by = CONTRIBUTIONS /\ raw.only_new = "false"}

\* the query object built by bypassRateLimit
Canonical(raw) ==
    [limit |-> NumberOf(raw.limit),
     start_date |-> raw.start_date,
     end_date |-> raw.end_date,
     sort_by |-> raw.sort_by,
     retrieve_by |-> raw.retrieve_by,
     include_rewards |-> getBoolean(raw.include_rewards),
     only_new |-> getBoolean(raw.only_new)]

\* md5 of JSON.stringify(query): a digest that identifies the canonical query
Fingerprint(query) == query

\* the upper bound is not tested
LimitInvalidNaNOnly(limit) == limit.nan

LimitInvalid(limit) == limit.nan \/ limit.x2 > 2 * MaxLimit

RangeTooWide(query) ==
    /\ (query.include_rewards \/ query.retrieve_by = CONTRIBUTIONS)
    /\ query.end_date - query.start_date > MaxRangeMs

----------------------------------------------------------------------------
(* The contribution store *)

Post(id, project, day, votes, pending, paid) ==
    [id |-> id, project |-> project, created |-> day * DayMs, votes |-> votes,
     pending_payout_value |-> pending, total_payout_value |-> paid,
     rewards |-> 0, has_rewards |-> FALSE, payout_cleared |-> FALSE]

\* Project A has a post older than StartDate and one inside the window, B lies
\* inside the 4-day window, C has a post beyond it; votes, rewards and store
\* order rank the posts differently, and posts 2 and 5 tie on rewards.
Store ==
    << Post(1, "A", 9, 1, 5, 0), Post(2, "A", 11, 3, 1, 1),
       Post(3, "B", 11, 2, 0, 4), Post(4, "B", 12, 5, 2, 1),
       Post(5, "C", 13, 4, 2, 0), Post(6, "C", 15, 6, 3, 3) >>

\* The boundary days: D has a post created at StartDate and one at the end of
\* the 4-day window; all posts of B are older than StartDate, the post of C
\* lies beyond the 4-day window.
BoundaryStore ==
    << Post(1, "A", 12, 2, 1, 0), Post(2, "B", 8, 4, 0, 2),
       Post(3, "B", 9, 1, 1, 1), Post(4, "C", 16, 7, 0, 1),
       Post(5, "D", 10, 2, 2, 2), Post(6, "D", 14, 3, 0, 0) >>

Stores == {Store, BoundaryStore}

----------------------------------------------------------------------------
(* Post.aggregate: the match stage and the group stage *)

\* aggregateMatch(start, end): created in [start, end); no lower bound when
\* start is undefined
aggregateMatch(posts, hasStart, start, end) ==
    SelectSeq(posts, LAMBDA p : p.created < end /\ (hasStart => p.created >= start))

RECURSIVE ProjectsOf(_)
\* the projects of a list of posts, in order of first appearance
ProjectsOf(posts) ==
    IF posts = << >> THEN << >>
    ELSE LET rest == ProjectsOf(SubSeq(posts, 1, Len(posts) - 1))
             p == posts[Len(posts)].project
         IN IF \E i \in 1..Len(rest) : rest[i] = p THEN rest ELSE Append(rest, p)

\* aggregateGroup: one group per project, holding its matched posts
aggregateGroup(posts) ==
    LET names == ProjectsOf(posts)
    IN [i \in 1..Len(names) |->
          LET mine == SelectSeq(posts, LAMBDA p : p.project = names[i])
          IN [id |-> names[i], count |-> Len(mine), posts |-> mine,
              rewards |-> 0, has_rewards |-> FALSE]]

\* the match stage keeps its lower bound when only_new is set
AggregateDataLowerBound(store, params) ==
    LET matched == aggregateMatch(store, TRUE, params.start_date, params.end_date)
    IN IF params.retrieve_by = PROJECTS THEN aggregateGroup(matched) ELSE matched

\* the data Post.aggregate resolves to for the pipeline built at lines 133-142
AggregateData(store, params) ==
    LET matched == aggregateMatch(store, ~params.only_new, params.start_date,
                                  params.end_date)
    IN IF params.retrieve_by = PROJECTS THEN aggregateGroup(matched) ELSE matched

----------------------------------------------------------------------------
(* Post-processing in top *)

postRewards(post) == post.pending_payout_value + post.total_payout_value

RECURSIVE ScanPosts(_, _, _, _)
\* the inner loop over repo['posts']: stops at the first post older than
\* start_date, else adds up the rewards
ScanPosts(posts, k, params, rewards) ==
    IF k > Len(posts) THEN [blacklist |-> FALSE, rewards |-> rewards]
    ELSE IF params.only_new /\ posts[k].created < params.start_date
         THEN [blacklist |-> TRUE, rewards |-> rewards]
         ELSE ScanPosts(posts, k + 1, params,
                        IF params.include_rewards
                        THEN rewards + postRewards(posts[k]) ELSE rewards)

RemoveAt(s, i) == SubSeq(s, 1, i - 1) \o SubSeq(s, i + 1, Len(s))

RECURSIVE FilterRepos(_, _, _)
\* the loop for (i = data.length - 1; i >= 0; --i) over the project groups
FilterRepos(data, i, params) ==
    IF i < 1 THEN data
    ELSE LET scan == ScanPosts(data[i].posts, 1, params, 0)
         IN IF scan.blacklist
            THEN FilterRepos(RemoveAt(data, i), i - 1, params)
            ELSE IF params.include_rewards
                 THEN FilterRepos([data EXCEPT ![i].rewards = scan.rewards,
                                               ![i].has_rewards = TRUE],
                                  i - 1, params)
                 ELSE FilterRepos(data, i - 1, params)

\* repo['posts'] = undefined
DropPosts(data) == [i \in 1..Len(data) |-> [data[i] EXCEPT !.posts = << >>]]

RECURSIVE FilterPosts(_, _, _)
\* the loop for (i = data.length - 1; i >= 0; --i) over the contributions
FilterPosts(data, i, params) ==
    IF i < 1 THEN data
    ELSE IF params.only_new /\ data[i].created < params.start_date
         THEN FilterPosts(RemoveAt(data, i), i - 1, params)
         ELSE IF params.include_rewards
              THEN FilterPosts([data EXCEPT ![i].rewards = postRewards(data[i]),
                                            ![i].has_rewards = TRUE,
                                            ![i].payout_cleared = TRUE],
                               i - 1, params)
              ELSE FilterPosts(data, i - 1, params)

RECURSIVE InsertDesc(_, _, _)
InsertDesc(sorted, x, field) ==
    IF sorted = << >> THEN << x >>
    ELSE IF sorted[Len(sorted)][field] >= x[field]
         THEN Append(sorted, x)
         ELSE Append(InsertDesc(SubSeq(sorted, 1, Len(sorted) - 1), x, field),
                     sorted[Len(sorted)])

RECURSIVE SortDesc(_, _)
\* data.sort((a, b) => b[field] - a[field]): descending, equal keys keep their order
SortDesc(data, field) ==
    IF data = << >> THEN << >>
    ELSE InsertDesc(SortDesc(SubSeq(data, 1, Len(data) - 1), field),
                    data[Len(data)], field)

\* the contributions are left unsorted
PostProcessUnsorted(data, params) ==
    IF params.retrieve_by = PROJECTS
    THEN DropPosts(IF params.only_new \/ params.include_rewards
                   THEN FilterRepos(data, Len(data), params) ELSE data)
    ELSE FilterPosts(data, Len(data), params)

\* lines 145-183
PostProcess(data, params) ==
    IF params.retrieve_by = PROJECTS
    THEN DropPosts(IF params.only_new \/ params.include_rewards
                   THEN FilterRepos(data, Len(data), params) ELSE data)
    ELSE IF params.retrieve_by = CONTRIBUTIONS
         THEN LET kept == FilterPosts(data, Len(data), params)
              IN IF params.sort_by = CONTRIBUTIONS THEN SortDesc(kept, "votes")
                 ELSE kept
         ELSE data

\* the result set is left in the order the post-processing gave it
GlobalSortSkipped(data, params) == data

\* lines 185-187
GlobalSort(data, params) ==
    IF params.include_rewards /\ params.sort_by = REWARDS
    THEN SortDesc(data, "rewards") ELSE data

\* the final ordering, before truncation
Ordered(data, params) == GlobalSort(PostProcess(data, params), params)

\* line 189: if (data.length > params.limit) data.length = params.limit;
\* setting length to a negative or fractional number throws a RangeError
TruncateThrows(data, limit) ==
    /\ 2 * Len(data) > limit.x2
    /\ (limit.x2 < 0 \/ limit.x2 % 2 # 0)

Truncate(data, limit) ==
    IF 2 * Len(data) > limit.x2 THEN SubSeq(data, 1, limit.x2 \div 2) ELSE data

----------------------------------------------------------------------------
(* Responses *)

NoResults == << >>

\* res.json(task): the Task as it is when it is serialised
TaskPayload(t, task) ==
    [kind |-> "task", error |-> "", task |-> t, status |-> task.status,
     statusMessage |-> task.statusMessage, has_results |-> task.has_results,
     results |-> task.results]

\* res.json({error: msg})
ErrorPayload(msg) ==
    [kind |-> "error", error |-> msg, task |-> 0, status |-> 0,
     statusMessage |-> "", has_results |-> FALSE, results |-> NoResults]

\* res.json(undefined)
UndefinedPayload ==
    [kind |-> "undefined", error |-> "", task |-> 0, status |-> 0,
     statusMessage |-> "", has_results |-> FALSE, results |-> NoResults]

\* the rate limiter's refusal
DeniedPayload ==
    [kind |-> "denied", error |-> "", task |-> 0, status |-> 0,
     statusMessage |-> "", has_results |-> FALSE, results |-> NoResults]

----------------------------------------------------------------------------
(* State *)

Init ==
    /\ cache = << >>
    /\ tasks = << >>
    /\ runners = << >>
    /\ reqs = << >>
    /\ timers = << >>
    /\ fired = {}
    /\ db \in Stores

\* an entry whose Task is still IN_PROGRESS is taken for a miss
CachedTerminal(cacheId) ==
    cacheId \in DOMAIN cache /\ tasks[cache[cacheId]].status # IN_PROGRESS

\* if (cache[cacheId]) (line 96)
Cached(cacheId) == cacheId \in DOMAIN cache

CachePut(c, cacheId, t) ==
    [k \in DOMAIN c \cup {cacheId} |-> IF k = cacheId THEN t ELSE c[k]]

\* the entry is left where it is
CacheDeleteNothing(c, cacheId) == c

\* delete cache[cacheId]
CacheDelete(c, cacheId) == [k \in DOMAIN c \ {cacheId} |-> c[k]]

\* the condition under which bypassRateLimit calls next() itself (line 110)
BypassesLimiter(query) == ~query.include_rewards

\* the condition under which top awaits updateRewards (line 126)
NeedsRewards(params) ==
    params.include_rewards \/ params.retrieve_by = CONTRIBUTIONS

\* the cap is passed with every call
RewardsLimiterAlways(params) == [defined |-> TRUE, value |-> params.limit]

\* the third argument of updateRewards (lines 127-129): params.limit, or
\* undefined
RewardsLimiter(params) ==
    IF params.retrieve_by = PROJECTS /\ params.sort_by = CONTRIBUTIONS
    THEN [defined |-> TRUE, value |-> params.limit]
    ELSE [defined |-> FALSE, value |-> params.limit]

\* updateRewards is not called: the condition of line 126 is false, or top
\* ended before the try block
NoRewardsCall(params) ==
    [called |-> FALSE, start_date |-> 0, end_date |-> 0,
     limiter |-> [defined |-> FALSE, value |-> params.limit]]

\* the call updateRewards(params.start_date, params.end_date, limiter) of line
\* 130, made when the condition of line 126 holds
RewardsCall(params) ==
    IF NeedsRewards(params)
    THEN [called |-> TRUE, start_date |-> params.start_date,
          end_date |-> params.end_date, limiter |-> RewardsLimiter(params)]
    ELSE NoRewardsCall(params)

\* the delay given to setTimeout (line 195)
EvictionDelay(params) ==
    IF params.include_rewards THEN RewardsTtlMs ELSE PlainTtlMs

\* req.query = {cacheId, ...query} (lines 105-108)
CacheableQuery(query) ==
    [cacheId |-> Fingerprint(query), limit |-> query.limit,
     start_date |-> query.start_date, end_date |-> query.end_date,
     sort_by |-> query.sort_by, retrieve_by |-> query.retrieve_by,
     include_rewards |-> query.include_rewards, only_new |-> query.only_new]

NewTask ==
    [status |-> IN_PROGRESS, statusMessage |-> TaskStatusName(IN_PROGRESS),
     has_results |-> FALSE, results |-> NoResults]

\* res.json on a response that was already written (the date-range error of
\* line 73): the source does not say what res.json does then, and the HTTP
\* layer may refuse the write by throwing.  Both outcomes are kept: throws
\* chooses between them.
ResJsonThrows(req, throws) == req.responses # << >> /\ throws

\* top, from its entry to its first await: the Task is stored under cacheId, the
\* snapshot is written to res, and the runner suspends in updateRewards or in
\* Post.aggregate.  req is the request record as bypassRateLimit left it.
\* res.json (line 123) stands before the try block: when it throws, top ends
\* there, with the Task left in the cache.
Top(r, req, throws) ==
    LET params == req.params
        t == Len(tasks) + 1
        done == IF ResJsonThrows(req, throws)
                THEN [req EXCEPT !.stage = "threw"]
                ELSE [req EXCEPT !.stage = "done",
                                 !.responses = Append(@, TaskPayload(t, NewTask))]
    IN /\ tasks' = Append(tasks, NewTask)
       /\ cache' = CachePut(cache, params.cacheId, t)
       /\ runners' = Append(runners,
                        [params |-> params, req |-> r,
                         pc |-> IF ResJsonThrows(req, throws) THEN "aborted"
                                ELSE IF NeedsRewards(params) THEN "rewards"
                                ELSE "aggregate",
                         rewards_call |-> IF ResJsonThrows(req, throws)
                                          THEN NoRewardsCall(params)
                                          ELSE RewardsCall(params)])
       /\ reqs' = IF r > Len(reqs) THEN Append(reqs, done)
                  ELSE [reqs EXCEPT ![r] = done]

\* A request as it arrives: nothing written to res yet.  params is what
\* bypassRateLimit leaves in req.query for top on a cache miss.  stage is where
\* the request stands; limited, hit and hit_status record that the request was
\* handed to the limiter, and which Task it found in the cache in which state.
NewRequest(raw) ==
    [raw |-> raw, params |-> CacheableQuery(Canonical(raw)), stage |-> "new",
     limited |-> FALSE, hit |-> 0, hit_status |-> 0, responses |-> << >>]

Respond(req, payload) == [req EXCEPT !.responses = Append(@, payload)]

\* lines 66-76: what validation writes to res when the limit is accepted.
\* With dates that are Date objects or strings nothing in the try block of
\* lines 59-80 throws, so its catch is not reached.
Validated(req) ==
    IF RangeTooWide(Canonical(req.raw)) THEN Respond(req, ErrorPayload(RangeError))
    ELSE req

\* the requests waiting in the limiter and the runners that have not finished
InFlight ==
    Cardinality({i \in 1..Len(reqs) : reqs[i].stage = "limiter"})
    + Cardinality({t \in 1..Len(runners) : runners[t].pc \in {"rewards", "aggregate"}})

\* the Task is stored when the request is handed to the limiter, before top
HandToLimiterStoringTask(r, req) ==
    /\ reqs' = Append(reqs, [req EXCEPT !.stage = "limiter", !.limited = TRUE])
    /\ tasks' = Append(tasks, NewTask)
    /\ cache' = CachePut(cache, req.params.cacheId, Len(tasks) + 1)
    /\ runners' = Append(runners,
                     [params |-> req.params, req |-> r, pc |-> "aborted",
                      rewards_call |-> NoRewardsCall(req.params)])

\* lines 105-114 when include_rewards is set: req.query is replaced and
\* bypassRateLimit returns false without calling next(); the cache is not
\* written
HandToLimiter(r, req) ==
    /\ reqs' = Append(reqs, [req EXCEPT !.stage = "limiter", !.limited = TRUE])
    /\ UNCHANGED <<cache, tasks, runners>>

\* bypassRateLimit, lines 48-115, and what the route does with its result:
\* next() runs top at once; a false result hands the request to the limiter.
bypassRateLimit(raw, throws) ==
    LET r == Len(reqs) + 1
        query == Canonical(raw)
        cacheId == Fingerprint(query)
        req == Validated(NewRequest(raw))
    IN /\ Len(reqs) < MaxRequests
       /\ reqs # << >> => (raw = reqs[1].raw /\ raw \in RepeatedQueries)
       /\ throws => RangeTooWide(query)
       /\ IF LimitInvalid(query.limit)
          THEN /\ reqs' = Append(reqs, [Respond(NewRequest(raw), ErrorPayload(LimitError))
                                          EXCEPT !.stage = "done"])
               /\ UNCHANGED <<cache, tasks, runners>>
          ELSE IF Cached(cacheId)
          THEN LET t == cache[cacheId]
                   after == IF tasks[t].status = ERROR
                            THEN CacheDelete(cache, cacheId) ELSE cache
                   payload == IF cacheId \in DOMAIN after
                              THEN TaskPayload(after[cacheId], tasks[after[cacheId]])
                              ELSE UndefinedPayload
               IN /\ cache' = after
                  /\ reqs' = Append(reqs,
                               [(IF ResJsonThrows(req, throws)
                                 THEN [req EXCEPT !.stage = "threw"]
                                 ELSE [Respond(req, payload) EXCEPT !.stage = "done"])
                                  EXCEPT !.hit = t, !.hit_status = tasks[t].status])
                  /\ UNCHANGED <<tasks, runners>>
          ELSE IF BypassesLimiter(query)
          THEN InFlight < MaxInFlight /\ Top(r, req, throws)
          ELSE InFlight < MaxInFlight /\ HandToLimiter(r, req)
       /\ UNCHANGED <<timers, fired, db>>

\* the external rate limiter lets the request through: next() runs top
LimiterAdmit(r, throws) ==
    /\ r \in 1..Len(reqs)
    /\ reqs[r].stage = "limiter"
    /\ throws => reqs[r].responses # << >>
    /\ Top(r, reqs[r], throws)
    /\ UNCHANGED <<timers, fired, db>>

\* the external rate limiter refuses the request
LimiterDeny(r) ==
    /\ r \in 1..Len(reqs)
    /\ reqs[r].stage = "limiter"
    /\ reqs' = [reqs EXCEPT ![r] = [Respond(@, DeniedPayload) EXCEPT !.stage = "denied"]]
    /\ UNCHANGED <<cache, tasks, runners, timers, fired, db>>

----------------------------------------------------------------------------
(* The runner: top after its first await *)

Running(t) == t \in 1..Len(runners) /\ runners[t].pc \in {"rewards", "aggregate"}

\* the catch block leaves statusMessage as it was
FailedSilently(task, message) == [task EXCEPT !.status = ERROR]

\* lines 196-200: the catch block
Failed(task, message) == [task EXCEPT !.status = ERROR, !.statusMessage = message]

\* lines 190-192
Succeeded(task, data) ==
    [task EXCEPT !.status = SUCCESS, !.statusMessage = TaskStatusName(SUCCESS),
                 !.has_results = TRUE, !.results = data]

\* lines 193-195: the callback registered with setTimeout
EvictionTimer(t, params) ==
    [task |-> t, cacheId |-> params.cacheId, delay |-> EvictionDelay(params)]

\* await updateRewards(...) resolves; top goes on to Post.aggregate
RewardsReturn(t) ==
    /\ Running(t)
    /\ runners[t].pc = "rewards"
    /\ runners' = [runners EXCEPT ![t].pc = "aggregate"]
    /\ UNCHANGED <<cache, tasks, reqs, timers, fired, db>>

\* await updateRewards(...) rejects
RewardsFail(t) ==
    /\ Running(t)
    /\ runners[t].pc = "rewards"
    /\ tasks' = [tasks EXCEPT ![t] = Failed(@, RewardsFailure)]
    /\ runners' = [runners EXCEPT ![t].pc = "done"]
    /\ UNCHANGED <<cache, reqs, timers, fired, db>>

\* the catch block is reached after the Task was marked SUCCESS
AggregateFailLate(t) ==
    /\ t \in 1..Len(runners)
    /\ runners[t].pc \in {"aggregate", "done"}
    /\ tasks' = [tasks EXCEPT ![t] = Failed(@, AggregateFailure)]
    /\ runners' = [runners EXCEPT ![t].pc = "done"]
    /\ UNCHANGED <<cache, reqs, timers, fired, db>>

\* await Post.aggregate(...) rejects
AggregateFail(t) ==
    /\ Running(t)
    /\ runners[t].pc = "aggregate"
    /\ tasks' = [tasks EXCEPT ![t] = Failed(@, AggregateFailure)]
    /\ runners' = [runners EXCEPT ![t].pc = "done"]
    /\ UNCHANGED <<cache, reqs, timers, fired, db>>

\* await Post.aggregate(...) resolves: lines 145-195, or the catch block when
\* the truncation throws
AggregateReturn(t) ==
    /\ Running(t)
    /\ runners[t].pc = "aggregate"
    /\ runners' = [runners EXCEPT ![t].pc = "done"]
    /\ UNCHANGED <<cache, reqs, fired, db>>
    /\ LET params == runners[t].params
           data == Ordered(AggregateData(db, params), params)
       IN IF TruncateThrows(data, params.limit)
          THEN /\ tasks' = [tasks EXCEPT ![t] = Failed(@, InvalidArrayLength)]
               /\ UNCHANGED timers
          ELSE /\ tasks' = [tasks EXCEPT
                              ![t] = Succeeded(@, Truncate(data, params.limit))]
               /\ timers' = Append(timers, EvictionTimer(t, params))

----------------------------------------------------------------------------
(* Timers *)

\* the callback of line 194, delete cached[params.cacheId]: cached is the Task
\* object, whose properties are status, statusMessage and results; it has no
\* property named by the digest, so the statement removes nothing, and the
\* cache object is not touched
EvictionCallback(tm) ==
    /\ UNCHANGED tasks
    /\ UNCHANGED cache

\* A pending timer runs.  The clock is not modelled: a timer runs before every
\* timer registered after it with the same or a longer delay.
TimerFire(i) ==
    /\ i \in 1..Len(timers)
    /\ \A j \in 1..(i - 1) : timers[j].delay > timers[i].delay
    /\ EvictionCallback(timers[i])
    /\ timers' = RemoveAt(timers, i)
    /\ fired' = fired \cup {timers[i]}
    /\ UNCHANGED <<runners, reqs, db>>

----------------------------------------------------------------------------

Next ==
    \/ \E raw \in RawQueries : \E throws \in BOOLEAN : bypassRateLimit(raw, throws)
    \/ \E r \in 1..MaxRequests : \E throws \in BOOLEAN : LimiterAdmit(r, throws)
    \/ \E r \in 1..MaxRequests : LimiterDeny(r)
    \/ \E t \in 1..MaxRequests : RewardsReturn(t)
    \/ \E t \in 1..MaxRequests : RewardsFail(t)
    \/ \E t \in 1..MaxRequests : AggregateReturn(t)
    \/ \E t \in 1..MaxRequests : AggregateFail(t)
    \/ \E i \in 1..MaxRequests : TimerFire(i)

Spec == Init /\ [][Next]_vars

----------------------------------------------------------------------------
(* Vocabulary of the properties *)

Requests == 1..Len(reqs)
Tasks == 1..Len(tasks)

LastResponse(r) == reqs[r].responses[Len(reqs[r].responses)]

\* the runners that have not reached a terminal state, per fingerprint
RunnersInFlight(cacheId) ==
    {t \in Tasks : Running(t) /\ runners[t].params.cacheId = cacheId}

----------------------------------------------------------------------------
(* C1: identical requests issued before the first one's Runner is terminal   *)
(* share one Runner: at no time are two Runners in flight for a fingerprint. *)
C1_OneRunnerPerFingerprint ==
    \A t1, t2 \in Tasks :
        /\ runners[t1].pc \in {"rewards", "aggregate"}
        /\ runners[t2].pc \in {"rewards", "aggregate"}
        /\ runners[t1].params.cacheId = runners[t2].params.cacheId
        => t1 = t2

(* C2: a SUCCESS Task stays in the store until its eviction timer has run,   *)
(* and once the timer has run the store no longer holds it.                  *)
C2_AbsentAfterTimer ==
    \A tm \in fired :
        ~(tm.cacheId \in DOMAIN cache /\ cache[tm.cacheId] = tm.task)

(* C3: a request that finds a Task in the cache is answered with that Task's *)
(* snapshot: the ERROR snapshot when the Task is in ERROR, else the          *)
(* IN_PROGRESS or SUCCESS snapshot.                                          *)
C3_HitServesSnapshot ==
    \A r \in Requests :
        reqs[r].hit # 0 =>
            /\ LastResponse(r).kind = "task"
            /\ LastResponse(r).task = reqs[r].hit
            /\ LastResponse(r).status = reqs[r].hit_status

(* C4: an ERROR Task leaves the store only when a request with its           *)
(* fingerprint reads it, and that read starts no Runner.                     *)
C4_ErrorLeavesOnlyOnRead ==
    [][\A k \in DOMAIN cache :
          (tasks[cache[k]].status = ERROR
             /\ ~(k \in DOMAIN cache' /\ cache'[k] = cache[k]))
          => /\ Len(reqs') = Len(reqs) + 1
             /\ reqs'[Len(reqs')].hit = cache[k]
             /\ reqs'[Len(reqs')].params.cacheId = k
             /\ tasks' = tasks
             /\ runners' = runners]_vars

BadLimits == {"abc", "150"}

\* no ERROR Task is read by more than one request
ErrorReadOnce ==
    \A t \in Tasks :
        Cardinality({r \in Requests : reqs[r].hit = t /\ reqs[r].hit_status = ERROR}) <= 1

\* what a step of the admission gate does to the request it takes in
ErrorReadStep ==
    LET r == Len(reqs')
        k == reqs'[r].params.cacheId
    IN (r = Len(reqs) + 1 /\ reqs'[r].raw.limit \notin BadLimits) =>
         /\ (k \in DOMAIN cache /\ tasks[cache[k]].status = ERROR)
              => /\ k \notin DOMAIN cache'
                 /\ tasks' = tasks
                 /\ runners' = runners
                 /\ reqs'[r].stage \in {"done", "threw"}
         /\ (k \notin DOMAIN cache /\ reqs'[r].raw.include_rewards # "true")
              => /\ Len(tasks') = Len(tasks) + 1
                 /\ cache'[k] = Len(tasks')
                 /\ tasks'[Len(tasks')].status = IN_PROGRESS
                 /\ runners'[Len(tasks')].req = r
                 /\ reqs'[r].stage = "done" =>
                      runners'[Len(tasks')].pc \in {"rewards", "aggregate"}
         /\ (k \notin DOMAIN cache /\ reqs'[r].raw.include_rewards = "true")
              => /\ reqs'[r].stage = "limiter"
                 /\ tasks' = tasks

\* what the admission by the limiter does
AdmitStep ==
    \A r \in Requests :
        (reqs[r].stage = "limiter" /\ reqs'[r].stage \in {"done", "threw"}) =>
            /\ Len(tasks') = Len(tasks) + 1
            /\ cache'[reqs[r].params.cacheId] = Len(tasks')
            /\ tasks'[Len(tasks')].status = IN_PROGRESS
            /\ runners'[Len(tasks')].req = r
            /\ reqs'[r].stage = "done" =>
                 runners'[Len(tasks')].pc \in {"rewards", "aggregate"}

C6_LimiterIffExpensive ==
    \A r \in Requests :
        (reqs[r].hit = 0 /\ reqs[r].raw.limit \notin BadLimits) =>
            (reqs[r].limited <=>
                (reqs[r].raw.include_rewards = "true"
                 \/ reqs[r].raw.retrieve_by = "contributions"))

\* a request with a bad limit got the error payload and nothing else happened
BadLimitAnswered ==
    \A r \in Requests :
        reqs[r].raw.limit \in BadLimits =>
            /\ reqs[r].responses = << ErrorPayload("limit is invalid or too high") >>
            /\ reqs[r].stage = "done"
            /\ ~reqs[r].limited
            /\ reqs[r].hit = 0
            /\ \A t \in Tasks : runners[t].req # r

BadLimitStep ==
    (Len(reqs') = Len(reqs) + 1 /\ reqs'[Len(reqs')].raw.limit \in BadLimits) =>
        /\ cache' = cache
        /\ tasks' = tasks
        /\ runners' = runners
        /\ timers' = timers

(* C7: a limit that is not numeric or exceeds 100 is answered with the error *)
(* payload and nothing else: no Task, no Runner, no limiter, store unchanged.*)
C7_InvalidLimitStops ==
    /\ []BadLimitAnswered
    /\ [][BadLimitStep]_vars

\* requests with limit=150 have been rejected
C7_Rejected ==
    \E r \in Requests :
        /\ reqs[r].raw.limit = "150"
        /\ reqs[r].stage = "done"
        /\ Len(reqs[r].responses) = 1

(* C8: a Task is created IN_PROGRESS, becomes SUCCESS or ERROR at most once, *)
(* by the Runner that created it, and never leaves a terminal state.         *)
C8_TaskLifecycle ==
    [][/\ Len(tasks') >= Len(tasks)
       /\ \A t \in (Len(tasks) + 1)..Len(tasks') : tasks'[t].status = IN_PROGRESS
       /\ \A t \in Tasks :
            tasks'[t].status # tasks[t].status =>
                /\ tasks[t].status = IN_PROGRESS
                /\ tasks'[t].status \in {SUCCESS, ERROR}
                /\ runners[t].pc \in {"rewards", "aggregate"}
                /\ runners'[t].pc = "done"
                /\ \A u \in Tasks \ {t} : runners'[u] = runners[u]]_vars

\* one Task ended SUCCESS, another ERROR, and the first was read afterwards
C8_BothTerminal ==
    \E t, u \in Tasks :
        /\ tasks[t].status = SUCCESS
        /\ tasks[u].status = ERROR
        /\ \E r \in Requests : reqs[r].hit = t /\ reqs[r].hit_status = SUCCESS

\* the projects of the store whose contributions before end_date all lie at
\* or after start_date
NewProjects(params) ==
    {db[i].project : i \in {j \in 1..Len(db) :
        /\ db[j].created < params.end_date
        /\ \A k \in 1..Len(db) :
             db[k].project = db[j].project => db[k].created >= params.start_date}}

(* C9: with retrieve_by=projects and only_new, a project with a contribution *)
(* older than start_date is absent from the results, and the projects whose  *)
(* contributions are all at or after start_date are kept, up to truncation.  *)
C9_OnlyNewProjects ==
    \A t \in Tasks :
        LET params == runners[t].params
            results == tasks[t].results
        IN (/\ tasks[t].status = SUCCESS
            /\ params.retrieve_by = "projects"
            /\ params.only_new)
           => /\ \A i \in 1..Len(results) : results[i].id \in NewProjects(params)
              /\ \A i, j \in 1..Len(results) : results[i].id = results[j].id => i = j
              /\ \/ Len(results) = Cardinality(NewProjects(params))
                 \/ 2 * Len(results) = params.limit.x2

\* a project with an old and a recent contribution was left out of the results
C9_OldProjectDropped ==
    \E t \in Tasks :
        /\ tasks[t].status = SUCCESS
        /\ runners[t].params.retrieve_by = "projects"
        /\ runners[t].params.only_new
        /\ Len(tasks[t].results) >= 1
        /\ \E i, j \in 1..Len(db) :
             /\ db[i].project = db[j].project
             /\ db[i].created < runners[t].params.start_date
             /\ db[j].created >= runners[t].params.start_date
             /\ db[j].created < runners[t].params.end_date
             /\ \A k \in 1..Len(tasks[t].results) :
                  tasks[t].results[k].id # db[i].project

(* C10: a query that passes limit validation and whose enrichment and        *)
(* aggregation do not fail ends SUCCESS with the first min(limit, n) entries *)
(* of the final ordering, never more than limit entries.                     *)
C10_TruncatedSuccess ==
    \A t \in Tasks :
        runners[t].pc = "done" =>
            LET params == runners[t].params
                all == Ordered(AggregateData(db, params), params)
            IN /\ tasks[t].status = ERROR =>
                    tasks[t].statusMessage \in {RewardsFailure, AggregateFailure}
               /\ tasks[t].status = SUCCESS =>
                    /\ 2 * Len(tasks[t].results) <= params.limit.x2
                    /\ Len(tasks[t].results) <= Len(all)
                    /\ tasks[t].results = SubSeq(all, 1, Len(tasks[t].results))
                    /\ \/ Len(tasks[t].results) = Len(all)
                       \/ 2 * Len(tasks[t].results) = params.limit.x2

\* the contributions of the store created in [start_date, end_date)
WindowPosts(params) ==
    {i \in 1..Len(db) :
        db[i].created >= params.start_date /\ db[i].created < params.end_date}

RECURSIVE RewardTotal(_, _)
\* pending plus paid, added up over the contributions of the store in idx
RewardTotal(idx, k) ==
    IF k = 0 THEN 0
    ELSE RewardTotal(idx, k - 1)
         + (IF k \in idx
            THEN db[k].pending_payout_value + db[k].total_payout_value ELSE 0)

\* the entries a query ranks, each with its reward total: the contributions of
\* the window, or the projects that have one (with only_new: the projects none
\* of whose contributions is older than start_date)
RewardCandidates(params) ==
    IF params.retrieve_by = "contributions"
    THEN {[id |-> db[i].id, rewards |-> RewardTotal({i}, Len(db))] :
             i \in WindowPosts(params)}
    ELSE {[id |-> p,
           rewards |-> RewardTotal({i \in WindowPosts(params) : db[i].project = p},
                                   Len(db))] :
             p \in {db[i].project : i \in WindowPosts(params)}
                   \cap (IF params.only_new THEN NewProjects(params)
                         ELSE {db[i].project : i \in 1..Len(db)})}

(* C11: with include_rewards and sort_by=rewards the results of a SUCCESS    *)
(* Task are in descending order of the reward total, at both granularities,  *)
(* and they are the limit entries with the highest totals.                   *)
C11_RewardsOrder ==
    \A t \in Tasks :
        LET params == runners[t].params
            res == tasks[t].results
            cand == RewardCandidates(params)
        IN (/\ tasks[t].status = SUCCESS
            /\ params.include_rewards
            /\ params.sort_by = "rewards")
           => /\ \A i, j \in 1..Len(res) : i < j => res[i].rewards >= res[j].rewards
              /\ \A i, j \in 1..Len(res) : res[i].id = res[j].id => i = j
              /\ \A i \in 1..Len(res) :
                    [id |-> res[i].id, rewards |-> res[i].rewards] \in cand
              /\ \A c \in cand :
                    (\A i \in 1..Len(res) : res[i].id # c.id)
                    => \A i \in 1..Len(res) : res[i].rewards >= c.rewards
              /\ 2 * Len(res) <= params.limit.x2
              /\ \/ Len(res) = Cardinality(cand)
                 \/ 2 * Len(res) = params.limit.x2

\* a reward ranking was cut to two entries with different totals, whose order
\* is not the order of the store
C11_TopTwoByRewards ==
    \E t \in Tasks :
        /\ tasks[t].status = SUCCESS
        /\ runners[t].params.include_rewards
        /\ runners[t].params.sort_by = "rewards"
        /\ Len(tasks[t].results) = 2
        /\ Cardinality(RewardCandidates(runners[t].params)) > 2
        /\ tasks[t].results[1].rewards > tasks[t].results[2].rewards
        /\ \E c \in RewardCandidates(runners[t].params) :
              /\ c.rewards < tasks[t].results[2].rewards
              /\ \A i \in 1..2 : tasks[t].results[i].id # c.id

(* C12: with retrieve_by=contributions and sort_by=contributions the results *)
(* of a SUCCESS Task are in descending order of the vote count, and they are *)
(* records of the store that the only_new filter kept.                       *)
C12_VotesOrder ==
    \A t \in Tasks :
        LET params == runners[t].params
            res == tasks[t].results
        IN (/\ tasks[t].status = SUCCESS
            /\ params.retrieve_by = "contributions"
            /\ params.sort_by = "contributions")
           => /\ \A i, j \in 1..Len(res) : i < j => res[i].votes >= res[j].votes
              /\ \A i, j \in 1..Len(res) : res[i].id = res[j].id => i = j
              /\ \A i \in 1..Len(res) :
                    \E k \in 1..Len(db) :
                        /\ db[k].id = res[i].id
                        /\ db[k].votes = res[i].votes
                        /\ db[k].created < params.end_date
                        /\ params.only_new => db[k].created >= params.start_date

\* a ranking by votes that is not in the order of the store, computed with
\* only_new over a store that holds a contribution older than start_date
C12_RankedByVotes ==
    \E t \in Tasks :
        /\ tasks[t].status = SUCCESS
        /\ runners[t].params.retrieve_by = "contributions"
        /\ runners[t].params.sort_by = "contributions"
        /\ runners[t].params.only_new
        /\ \E k \in 1..Len(db) : db[k].created < runners[t].params.start_date
        /\ \E i, j \in 1..Len(tasks[t].results) :
              /\ i < j
              /\ tasks[t].results[i].votes > tasks[t].results[j].votes
              /\ tasks[t].results[i].id > tasks[t].results[j].id

(* C13: every query for which a Task is created has a limit that is an       *)
(* integer between 1 and 100; validation rejects every other value before    *)
(* a Task exists.                                                            *)
C13_LimitInRange ==
    \A t \in Tasks :
        LET limit == runners[t].params.limit
        IN /\ ~limit.nan
           /\ limit.x2 % 2 = 0
           /\ limit.x2 >= 2
           /\ limit.x2 <= 2 * MaxLimit

\* the requests whose only failing validation is the 8-day rule
RangeOnlyFails(r) ==
    /\ reqs[r].raw.limit \notin BadLimits
    /\ (reqs[r].raw.include_rewards = "true" \/ reqs[r].raw.retrieve_by = "contributions")
    /\ reqs[r].raw.end_date - reqs[r].raw.start_date > 8 * DayMs

(* C14: a request whose only failing validation is the 8-day rule gets the   *)
(* error payload and goes on: the cache is looked up, and on a miss the      *)
(* request, once past the limiter where one applies, has an IN_PROGRESS Task *)
(* created for it and a Runner started.                                      *)
C14_RangeErrorGoesOn ==
    \A r \in Requests :
        RangeOnlyFails(r) =>
            /\ reqs[r].responses # << >>
            /\ reqs[r].responses[1] = ErrorPayload(RangeError)
            /\ reqs[r].hit # 0 => \A t \in Tasks : runners[t].req # r
            /\ (reqs[r].hit = 0 /\ reqs[r].stage \in {"done", "threw"}) =>
                 \E t \in Tasks :
                    /\ runners[t].req = r
                    /\ runners[t].params.cacheId = reqs[r].params.cacheId
                    /\ runners[t].pc \in {"rewards", "aggregate", "done"}

\* an ERROR Task carries the message of a failure and no results, and the
\* request that created it has the IN_PROGRESS snapshot and nothing else
ErrorTaskShape ==
    \A t \in Tasks :
        tasks[t].status = ERROR =>
            /\ tasks[t].statusMessage \in
                   {RewardsFailure, AggregateFailure, InvalidArrayLength}
            /\ ~tasks[t].has_results
            /\ tasks[t].results = NoResults
            /\ runners[t].pc = "done"
            /\ LastResponse(runners[t].req) = TaskPayload(t, NewTask)
            /\ \A i \in 1..Len(reqs[runners[t].req].responses) :
                  reqs[runners[t].req].responses[i].kind = "task"
                  => reqs[runners[t].req].responses[i].status = IN_PROGRESS

\* the step in which a Runner fails: the message is that of the failure of the
\* call it was waiting for, and nothing reaches a request or the store
FailureStep ==
    \A t \in Tasks :
        (tasks[t].status = IN_PROGRESS /\ tasks'[t].status = ERROR) =>
            /\ reqs' = reqs
            /\ cache' = cache
            /\ timers' = timers
            /\ runners[t].pc = "rewards" => tasks'[t].statusMessage = RewardsFailure
            /\ runners[t].pc = "aggregate" =>
                 tasks'[t].statusMessage \in {AggregateFailure, InvalidArrayLength}

(* C15: a failure of the enrichment, of the aggregation or of the            *)
(* post-processing is caught in top: nothing is passed on to a request, and  *)
(* the Task ends ERROR with the failure's message and without results.       *)
C15_FailureCaught ==
    /\ []ErrorTaskShape
    /\ [][FailureStep]_vars

\* one Task failed in the truncation and another in the aggregation
C15_TwoFailures ==
    \E t, u \in Tasks :
        /\ tasks[t].status = ERROR
        /\ tasks[t].statusMessage = InvalidArrayLength
        /\ tasks[u].status = ERROR
        /\ tasks[u].statusMessage = AggregateFailure

\* a request that found a Task that was not in ERROR never went to the limiter
\* and is the request of no Runner
ReadersStartNothing ==
    \A r \in Requests :
        (reqs[r].hit # 0 /\ reqs[r].hit_status # ERROR) =>
            /\ ~reqs[r].limited
            /\ reqs[r].stage \in {"done", "threw"}
            /\ \A t \in Tasks : runners[t].req # r

\* the step of a request that finds an IN_PROGRESS or SUCCESS Task
ReadStep ==
    LET r == Len(reqs')
        k == reqs'[r].params.cacheId
    IN (/\ r = Len(reqs) + 1
        /\ k \in DOMAIN cache
        /\ tasks[cache[k]].status \in {IN_PROGRESS, SUCCESS})
       => /\ cache' = cache
          /\ tasks' = tasks
          /\ runners' = runners
          /\ timers' = timers
          /\ reqs'[r].hit = cache[k]
          /\ ~reqs'[r].limited
          /\ reqs'[r].stage = "done" =>
               reqs'[r].responses[Len(reqs'[r].responses)]
                 = TaskPayload(cache[k], tasks[cache[k]])

(* C16: a request that finds an IN_PROGRESS or SUCCESS Task for its          *)
(* fingerprint only reads: no Runner is started, the limiter is not          *)
(* consulted, and the store and the Task are left as they were.              *)
C16_HitIsPureRead ==
    /\ []ReadersStartNothing
    /\ [][ReadStep]_vars

\* one request read a Task while it was IN_PROGRESS and a later one read the
\* same Task in SUCCESS
C16_ReadTwice ==
    \E r1, r2 \in Requests :
        /\ r1 < r2
        /\ reqs[r1].hit # 0
        /\ reqs[r1].hit = reqs[r2].hit
        /\ reqs[r1].hit_status = IN_PROGRESS
        /\ reqs[r2].hit_status = SUCCESS

(* C17: an eviction timer exists only for a Task that has reached a terminal *)
(* state, and no two pending eviction timers are for the same fingerprint.   *)
C17_OneTimerPerFingerprint ==
    /\ \A i \in 1..Len(timers) :
          /\ timers[i].task \in Tasks
          /\ tasks[timers[i].task].status \in {SUCCESS, ERROR}
    /\ \A i, j \in 1..Len(timers) :
          timers[i].cacheId = timers[j].cacheId => i = j

(* C18: while the enrichment call of a Runner has not returned, its Task     *)
(* stays IN_PROGRESS and in the store, every identical request is answered   *)
(* with the IN_PROGRESS snapshot, and no Runner is started for the           *)
(* fingerprint.                                                              *)
C18_StalledTaskStays ==
    [][\A t \in Tasks :
          (runners[t].pc = "rewards" /\ runners'[t].pc = "rewards") =>
              LET k == runners[t].params.cacheId
                  r == Len(reqs')
              IN /\ tasks[t].status = IN_PROGRESS
                 /\ tasks'[t] = tasks[t]
                 /\ k \in DOMAIN cache /\ cache[k] = t
                 /\ k \in DOMAIN cache' /\ cache'[k] = t
                 /\ \A u \in (Len(tasks) + 1)..Len(tasks') :
                       runners'[u].params.cacheId # k
                 /\ (r = Len(reqs) + 1 /\ reqs'[r].params.cacheId = k) =>
                       /\ reqs'[r].responses # << >>
                       /\ reqs'[r].responses[Len(reqs'[r].responses)]
                            = TaskPayload(t, tasks[t])]_vars

\* what each Runner that entered the try block called, read against the
\* query string of its request
EnrichmentCalls ==
    \A t \in Tasks :
        LET call == runners[t].rewards_call
            raw == reqs[runners[t].req].raw
        IN runners[t].pc # "aborted" =>
            /\ call.called <=>
                 (raw.include_rewards = "true" \/ raw.retrieve_by = "contributions")
            /\ call.called =>
                 /\ call.start_date = raw.start_date
                 /\ call.end_date = raw.end_date
                 /\ call.limiter.defined <=>
                      (raw.retrieve_by = "projects" /\ raw.sort_by = "contributions")
                 /\ call.limiter.defined =>
                      call.limiter.value = NumberOf(raw.limit)

\* a Runner waits for the enrichment first exactly when it called it, and the
\* aggregation starts when the enrichment has returned or was not called
EnrichmentFirst ==
    /\ \A t \in (Len(tasks) + 1)..Len(tasks') :
          /\ runners'[t].rewards_call.called <=> runners'[t].pc = "rewards"
          /\ runners'[t].pc \in {"rewards", "aggregate", "aborted"}
    /\ \A t \in Tasks :
          (runners[t].pc # "aggregate" /\ runners'[t].pc = "aggregate") =>
              runners[t].pc = "rewards"

(* C19: the Runner calls the enrichment over [start_date, end_date], before   *)
(* the aggregation, exactly when include_rewards is true or retrieve_by is   *)
(* contributions, and passes limit as the cap exactly when retrieve_by is    *)
(* projects and sort_by is contributions.                                    *)
C19_EnrichmentCall ==
    /\ []EnrichmentCalls
    /\ [][EnrichmentFirst]_vars

\* a Runner that called the enrichment with the cap 2 has ended SUCCESS
C19_CappedCall ==
    \E t \in Tasks :
        /\ tasks[t].status = SUCCESS
        /\ runners[t].rewards_call.called
        /\ runners[t].rewards_call.limiter.defined
        /\ runners[t].rewards_call.limiter.value.x2 = 4

\* the calls of res.json that bypassRateLimit and top made for a request: the
\* payloads they wrote, and the call that threw
ResJsonCalls(r) ==
    Cardinality({i \in 1..Len(reqs[r].responses) :
                    reqs[r].responses[i].kind # "denied"})
    + (IF reqs[r].stage = "threw" THEN 1 ELSE 0)

(* C20: bypassRateLimit and top call res.json at most once for a request, on *)
(* every path.                                                               *)
C20_OneResponse ==
    \A r \in Requests : ResJsonCalls(r) <= 1

----------------------------------------------------------------------------
(* Fairness: every pending updateRewards call and every pending              *)
(* Post.aggregate call resolves or rejects, and the Runner that awaits it    *)
(* is resumed.                                                               *)
FairSpec ==
    /\ Spec
    /\ \A t \in 1..MaxRequests :
          /\ WF_vars(RewardsReturn(t) \/ RewardsFail(t))
          /\ WF_vars(AggregateFail(t) \/ AggregateReturn(t))

\* the step in which a Task becomes terminal leaves it in the store under its
\* fingerprint, where the next identical request finds it
TerminalInStore ==
    \A t \in Tasks :
        (tasks[t].status = IN_PROGRESS /\ tasks'[t].status \in {SUCCESS, ERROR}) =>
            /\ runners[t].params.cacheId \in DOMAIN cache'
            /\ cache'[runners[t].params.cacheId] = t

(* C21: when every enrichment and aggregation call returns or fails, every   *)
(* Task created IN_PROGRESS reaches SUCCESS or ERROR, and the terminal Task  *)
(* is the one the store holds for its fingerprint.                           *)
C21_TasksTerminate ==
    /\ \A t \in 1..MaxRequests :
          (t \in Tasks /\ tasks[t].status = IN_PROGRESS)
              ~> (t \in Tasks /\ tasks[t].status \in {SUCCESS, ERROR})
    /\ [][TerminalInStore]_vars

\* a request the limiter refused was a miss, got the refusal, and is the
\* request of no Task
DeniedStartsNothing ==
    \A r \in Requests :
        reqs[r].stage = "denied" =>
            /\ reqs[r].limited
            /\ reqs[r].hit = 0
            /\ LastResponse(r) = DeniedPayload
            /\ \A t \in Tasks : runners[t].req # r

\* the step in which the limiter refuses a request
DenyStep ==
    \A r \in Requests :
        (reqs[r].stage = "limiter" /\ reqs'[r].stage = "denied") =>
            /\ cache' = cache
            /\ tasks' = tasks
            /\ runners' = runners
            /\ timers' = timers

\* a request whose fingerprint was so far asked for only by refused requests
\* finds no entry
MissAfterDenials ==
    LET r == Len(reqs')
        k == reqs'[r].params.cacheId
    IN (/\ r = Len(reqs) + 1
        /\ \E q \in Requests : reqs[q].params.cacheId = k
        /\ \A q \in Requests :
              reqs[q].params.cacheId = k => reqs[q].stage = "denied")
       => /\ k \notin DOMAIN cache
          /\ reqs'[r].hit = 0
          /\ reqs'[r].stage = "limiter"
          /\ tasks' = tasks
          /\ cache' = cache

(* C22: a request that was handed to the limiter and refused leaves the      *)
(* store as it was and has no Task; a later identical request is a cache     *)
(* miss again.                                                               *)
C22_DeniedLeavesStore ==
    /\ []DeniedStartsNothing
    /\ [][DenyStep /\ MissAfterDenials]_vars

\* a request was refused, and a later identical request missed the cache, was
\* admitted and has a Task
C22_MissAfterDenial ==
    \E r1, r2 \in Requests : \E t \in Tasks :
        /\ r1 < r2
        /\ reqs[r1].stage = "denied"
        /\ reqs[r2].params.cacheId = reqs[r1].params.cacheId
        /\ reqs[r2].hit = 0
        /\ reqs[r2].limited
        /\ runners[t].req = r2

====
